---- MODULE Spec2Model ----
(***************************************************************************)
(* A model of the Rust telemetry driver (src/src/main.rs): a wrapper that  *)
(* spawns a child command with piped stdin/stdout/stderr, drains the two   *)
(* output pipes on two threads, waits for the child, re-emits the captured *)
(* lines and appends three telemetry events to a JSON-lines log.           *)
(***************************************************************************)
EXTENDS Integers, Sequences, FiniteSets, TLC

(***************************************************************************)
(* Bounds of the model.                                                    *)
(***************************************************************************)
\* capacity, in bytes, of each of the child's stdout/stderr pipes
PipeCap == 1
\* longest input handed to capture_stream_lines in SpecCapture
MaxLen == 4
\* the child writes at most MaxOut bytes to each stream and MaxTotal bytes in
\* all: enough to fill both pipes and still have a write pending on each, and
\* enough to write on after a whole line has been read from a stream.  In
\* the runs whose telemetry writes can fail the child writes at most
\* MaxOutFaulty bytes to each stream.
MaxOut == PipeCap + 2
MaxTotal == 2 * PipeCap + 2
MaxOutFaulty == PipeCap

(***************************************************************************)
(* Bytes.  LF and CR are the two terminator bytes, "a" is any other byte   *)
(* of valid UTF-8 text, BAD is a byte that is not valid UTF-8 (0xFF).      *)
(***************************************************************************)
LF == "LF"
CR == "CR"
BAD == "xFF"
Byte == {"a", CR, LF, BAD}

\* the bytes the child writes in the model
ChildBytes == {"a", LF, BAD}
Streams == {"stdout", "stderr"}

SeqUpTo(S, n) == UNION {[1..k -> S] : k \in 0..n}

Last(s) == s[Len(s)]
Front(s) == SubSeq(s, 1, Len(s) - 1)

\* index of the first LF of buf, 0 when there is none
FirstLF(buf) ==
  IF \E i \in 1..Len(buf) : buf[i] = LF
  THEN CHOOSE i \in 1..Len(buf) : buf[i] = LF /\ \A j \in 1..(i - 1) : buf[j] # LF
  ELSE 0

ValidUtf8(bytes) == \A i \in 1..Len(bytes) : bytes[i] # BAD

\* a read_line that returns Ok(0) at the end of the stream even when bytes
\* without a terminator precede it
read_line_discards_unterminated(buf, eof) ==
  LET i == FirstLF(buf)
      raw == SubSeq(buf, 1, i)
      rest == SubSeq(buf, i + 1, Len(buf))
  IN  IF i = 0 /\ ~eof THEN [kind |-> "block", n |-> 0, line |-> <<>>, rest |-> buf]
      ELSE IF i = 0 THEN [kind |-> "ok", n |-> 0, line |-> <<>>, rest |-> <<>>]
      ELSE IF \E k \in 1..i : raw[k] = BAD
           THEN [kind |-> "err", n |-> 0, line |-> <<>>, rest |-> rest]
      ELSE [kind |-> "ok", n |-> i, line |-> raw, rest |-> rest]

(***************************************************************************)
(* BufRead::read_line(&mut String) on the bytes `buf` not yet consumed;    *)
(* `eof` says that no more bytes can follow them.  It reads through the    *)
(* first LF, or to the end of the stream; without either it needs more     *)
(* bytes ("block").  Bytes that are not valid UTF-8 make it return Err,    *)
(* the bytes read being consumed.                                          *)
(***************************************************************************)
read_line(buf, eof) ==
  LET i == FirstLF(buf)
      n == IF i > 0 THEN i ELSE Len(buf)
      raw == SubSeq(buf, 1, n)
      rest == SubSeq(buf, n + 1, Len(buf))
  IN  IF i = 0 /\ ~eof THEN [kind |-> "block", n |-> 0, line |-> <<>>, rest |-> buf]
      ELSE IF n = 0 THEN [kind |-> "ok", n |-> 0, line |-> <<>>, rest |-> buf]
      ELSE IF ~ValidUtf8(raw) THEN [kind |-> "err", n |-> 0, line |-> <<>>, rest |-> rest]
      ELSE [kind |-> "ok", n |-> n, line |-> raw, rest |-> rest]

\* main.rs 64-69 without the inner pop of a CR
StripKeepsCR(line) ==
  IF Len(line) > 0 /\ Last(line) = LF THEN Front(line) ELSE line

\* main.rs 64-69: pop a trailing LF and then a trailing CR
StripTerminator(line) ==
  IF Len(line) > 0 /\ Last(line) = LF
  THEN LET l1 == Front(line)
       IN  IF Len(l1) > 0 /\ Last(l1) = CR THEN Front(l1) ELSE l1
  ELSE line

(***************************************************************************)
(* The loop of capture_stream_lines (main.rs 57-74) run on the bytes `buf` *)
(* from the state (lines, total_bytes): it ends ("done") at Ok(0) or Err   *)
(* and pauses where read_line would block.                                 *)
(***************************************************************************)
\* main.rs 62 with the length of the stored line in place of n
AccumulateStripped(acc_bytes, r) == acc_bytes + Len(StripTerminator(r.line))

\* main.rs 62: total_bytes += n
Accumulate(acc_bytes, r) == acc_bytes + r.n

RECURSIVE CaptureLoop(_, _, _, _)
CaptureLoop(acc_lines, acc_bytes, buf, eof) ==
  LET r == read_line(buf, eof)
  IN  CASE r.kind = "block" ->
             [lines |-> acc_lines, total_bytes |-> acc_bytes, rest |-> buf, done |-> FALSE]
        [] r.kind = "err" ->
             [lines |-> acc_lines, total_bytes |-> acc_bytes, rest |-> r.rest, done |-> TRUE]
        [] r.kind = "ok" /\ r.n = 0 ->
             [lines |-> acc_lines, total_bytes |-> acc_bytes, rest |-> r.rest, done |-> TRUE]
        [] OTHER ->
             CaptureLoop(Append(acc_lines, StripTerminator(r.line)),
                         Accumulate(acc_bytes, r), r.rest, eof)

\* capture_stream_lines on a reader holding exactly the bytes `input`
capture_stream_lines(input) ==
  LET r == CaptureLoop(<<>>, 0, input, TRUE)
  IN  [lines |-> r.lines, total_bytes |-> r.total_bytes]


(***************************************************************************)
(* Values of the program.                                                  *)
(***************************************************************************)
\* Option<T>: None is the empty sequence, Some(v) the one-element sequence
Some(v) == <<v>>
NoneOpt == <<>>
unwrap_or(opt, default) == IF opt = NoneOpt THEN default ELSE opt[1]

\* the exit codes a child ends with in the model; a child ended by a signal
\* has no exit code (ExitStatus::code() is None)
ChildExitCodes == {0, 3}
ChildStatuses == {Some(c) : c \in ChildExitCodes} \cup {NoneOpt}

\* what the wrapper's caller supplies on the wrapper's own standard input
StdinInputs == {<<"a">>}

\* integer to decimal text (ToString::to_string), as a sequence of digits
Digit == <<"0", "1", "2", "3", "4", "5", "6", "7", "8", "9">>
RECURSIVE to_string(_)
to_string(n) ==
  IF n < 10 THEN <<Digit[n + 1]>> ELSE to_string(n \div 10) \o <<Digit[(n % 10) + 1]>>

\* the two invocations of the driver that may share one telemetry log
Invocations == {1, 2}
session_id(inv) == IF inv = 1 THEN "session-1" ELSE "session-2"
\* args[1..] of an invocation
command(inv) == IF inv = 1 THEN <<"cmd", "arg">> ELSE <<"other">>
\* env::vars() of the wrapper
environment == {<<"PATH", <<"/", "b", "i", "n">> >>}

VARIABLES
  faulty,         \* this run's telemetry writes can fail (fixed for the run)
  pc,             \* position of the main thread in main()
  args_len,       \* args.len()
  exit_status,    \* the code the wrapper process ended with, None while it runs
  childState,     \* "none" (not spawned), "running", "terminated"
  childStatus,    \* the child's ExitStatus::code() once terminated
  childOp,        \* the operation the child is about to perform
  produced,       \* per stream: the bytes the child has written to it
  childStdin,     \* [got: bytes the child read from its stdin, eof: it saw EOF]
  pipe,           \* per stream: bytes in the pipe, written and not yet read
  readerOpen,     \* per stream: the read end of the pipe is open
  heldOpen,       \* a descendant of the child still holds the pipes' write ends
  stdinSupplied,  \* the bytes the caller supplied on the wrapper's stdin
  stdinPipe,      \* bytes in the child's stdin pipe
  stdinWriteOpen, \* the wrapper holds the write end of the child's stdin pipe
  drainPc,        \* per stream: "unstarted", "running", "sent"
  rbuf,           \* per stream: bytes the BufReader has read and not returned
  lines,          \* per stream: `lines` of capture_stream_lines
  total_bytes,    \* per stream: `total_bytes` of capture_stream_lines
  chan,           \* per stream: the mpsc channel, None or the message sent
  captured,       \* per stream: (lines, bytes) the main thread received
  output,         \* the result of child.wait(): the child's exit code option
  end_time,       \* logical time at which end_time was taken (None before)
  emitted,        \* what the wrapper wrote to its own stdout and stderr, in order
  log,            \* the telemetry log file: the chunks appended, in order
  dropped,        \* per invocation: the events whose log_telemetry_event failed
  emitter,        \* per invocation (SpecLog): position in its telemetry appends
  cap_in,         \* SpecCapture: the bytes handed to capture_stream_lines
  cap_out         \* SpecCapture: its result, None before the call

mainVars == <<faulty, pc, args_len, exit_status, output, end_time, emitted, captured>>
childVars == <<childState, childStatus, childOp, produced, childStdin>>
pipeVars == <<pipe, readerOpen, heldOpen>>
stdinVars == <<stdinSupplied, stdinPipe, stdinWriteOpen>>
drainVars == <<drainPc, rbuf, lines, total_bytes, chan>>
logVars == <<log, dropped>>
otherVars == <<emitter, cap_in, cap_out>>
vars == <<mainVars, childVars, pipeVars, stdinVars, drainVars, logVars, otherVars>>

(***************************************************************************)
(* Logical time: the wrapper reads the clock twice, start_time (main.rs    *)
(* 108) being the first reading and end_time (main.rs 171) the second.     *)
(***************************************************************************)
start_time == 0
Now == start_time + 1

(***************************************************************************)
(* Telemetry events (struct TelemetryEvent) and the log.                   *)
(***************************************************************************)
pre_event(inv) ==
  [event_type |-> "process_start", session_id |-> session_id(inv),
   command |-> command(inv), env |-> environment,
   duration_ms |-> NoneOpt, exit_code |-> NoneOpt,
   stdout_lines |-> NoneOpt, stderr_lines |-> NoneOpt,
   stdout_size_bytes |-> NoneOpt, stderr_size_bytes |-> NoneOpt]

\* ProcessStats with stderr_lines taken from stdout_lines
process_stats_swapped(out, endt, cap) ==
  [duration_ms |-> endt - start_time,
   exit_code |-> unwrap_or(out, -1),
   stdout_lines |-> Len(cap["stdout"].lines),
   stderr_lines |-> Len(cap["stdout"].lines),
   total_output_bytes |-> cap["stdout"].bytes + cap["stderr"].bytes]

\* struct ProcessStats, main.rs 187-196
process_stats(out, endt, cap) ==
  [duration_ms |-> endt - start_time,
   exit_code |-> unwrap_or(out, -1),
   stdout_lines |-> Len(cap["stdout"].lines),
   stderr_lines |-> Len(cap["stderr"].lines),
   total_output_bytes |-> cap["stdout"].bytes + cap["stderr"].bytes]

\* a process_end event that repeats the environment snapshot
post_event_with_environment(inv, st, cap) ==
  [event_type |-> "process_end", session_id |-> session_id(inv),
   command |-> command(inv), env |-> environment,
   duration_ms |-> Some(st.duration_ms), exit_code |-> Some(st.exit_code),
   stdout_lines |-> Some(cap["stdout"].lines),
   stderr_lines |-> Some(cap["stderr"].lines),
   stdout_size_bytes |-> Some(cap["stdout"].bytes),
   stderr_size_bytes |-> Some(cap["stderr"].bytes)]

\* main.rs 199-217
post_event(inv, st, cap) ==
  [event_type |-> "process_end", session_id |-> session_id(inv),
   command |-> command(inv), env |-> {},
   duration_ms |-> Some(st.duration_ms), exit_code |-> Some(st.exit_code),
   stdout_lines |-> Some(cap["stdout"].lines),
   stderr_lines |-> Some(cap["stderr"].lines),
   stdout_size_bytes |-> Some(cap["stdout"].bytes),
   stderr_size_bytes |-> Some(cap["stderr"].bytes)]

stats_event(inv, st, cap) ==
  [event_type |-> "process_stats", session_id |-> session_id(inv),
   command |-> command(inv),
   env |-> {<<"duration_ms", to_string(st.duration_ms)>>,
            <<"stdout_lines", to_string(st.stdout_lines)>>,
            <<"stderr_lines", to_string(st.stderr_lines)>>,
            <<"total_bytes", to_string(st.total_output_bytes)>>},
   duration_ms |-> Some(st.duration_ms), exit_code |-> Some(st.exit_code),
   stdout_lines |-> NoneOpt, stderr_lines |-> NoneOpt,
   stdout_size_bytes |-> Some(cap["stdout"].bytes),
   stderr_size_bytes |-> Some(cap["stderr"].bytes)]

(***************************************************************************)
(* log_telemetry_event (main.rs 79-85).  writeln!(file, "{}", json_str) on *)
(* an unbuffered File is two writes: the JSON text, then the newline.  A   *)
(* chunk of the log is what one write appended: [by, kind, event], a       *)
(* "json" chunk holding Some(event), a "newline" chunk holding None.       *)
(***************************************************************************)
LogOutcomes == {"ok", "open_failed", "serialize_failed", "write_failed", "newline_failed"}

WriteJson(l, inv, event) ==
  Append(l, [by |-> inv, kind |-> "json", event |-> Some(event)])
WriteNewline(l, inv) ==
  Append(l, [by |-> inv, kind |-> "newline", event |-> NoneOpt])

\* the file opened without append(true): each call writes from offset 0
log_telemetry_event_overwrites(l, inv, event, outcome) ==
  IF outcome \in {"open_failed", "serialize_failed", "write_failed"} THEN l
  ELSE IF outcome = "newline_failed" THEN WriteJson(<<>>, inv, event)
  ELSE WriteNewline(WriteJson(<<>>, inv, event), inv)

log_telemetry_event(l, inv, event, outcome) ==
  IF outcome \in {"open_failed", "serialize_failed", "write_failed"} THEN l
  ELSE IF outcome = "newline_failed" THEN WriteJson(l, inv, event)
  ELSE WriteNewline(WriteJson(l, inv, event), inv)


(***************************************************************************)
(* Initial states.                                                         *)
(***************************************************************************)
MainInit ==
  /\ pc = "start"
  /\ exit_status = NoneOpt
  /\ childState = "none"
  /\ childStatus = NoneOpt
  /\ childOp = [op |-> "none", s |-> "none"]
  /\ produced = [s \in Streams |-> <<>>]
  /\ childStdin = [got |-> <<>>, eof |-> FALSE]
  /\ pipe = [s \in Streams |-> <<>>]
  /\ readerOpen = [s \in Streams |-> FALSE]
  /\ heldOpen = FALSE
  /\ stdinPipe = <<>>
  /\ stdinWriteOpen = FALSE
  /\ drainPc = [s \in Streams |-> "unstarted"]
  /\ rbuf = [s \in Streams |-> <<>>]
  /\ lines = [s \in Streams |-> <<>>]
  /\ total_bytes = [s \in Streams |-> 0]
  /\ chan = [s \in Streams |-> NoneOpt]
  /\ captured = [s \in Streams |-> NoneOpt]
  /\ output = NoneOpt
  /\ end_time = NoneOpt
  /\ emitted = <<>>
  /\ log = <<>>
  /\ dropped = [i \in Invocations |-> {}]

Init ==
  /\ MainInit
  /\ faulty \in BOOLEAN
  /\ args_len \in {1, 3}
  /\ stdinSupplied \in StdinInputs
  /\ emitter = [i \in Invocations |-> "idle"]
  /\ cap_in = <<>>
  /\ cap_out = NoneOpt

(***************************************************************************)
(* The main thread: main(), main.rs 92-260.                                *)
(***************************************************************************)
\* a diagnostic printed with println! in place of eprintln!
EprintToStdout(kind) == [fd |-> "stdout", kind |-> kind, text |-> <<>>]

\* eprintln! of one of the wrapper's own lines
Eprint(kind) == [fd |-> "stderr", kind |-> kind, text |-> <<>>]
\* println!("{}", line) / eprintln!("{}", line): the line and a line feed
PrintLine(fd, line) == [fd |-> fd, kind |-> "captured", text |-> Append(line, LF)]

\* the number of captured lines already re-emitted on fd
Reemitted(fd) ==
  Cardinality({i \in 1..Len(emitted) : emitted[i].fd = fd /\ emitted[i].kind = "captured"})

\* main() without the check of args.len()
CheckArgsProceeds ==
  /\ pc = "start"
  /\ pc' = "log_start"
  /\ UNCHANGED <<faulty, args_len, exit_status, output, end_time, emitted, captured>>
  /\ UNCHANGED <<childVars, pipeVars, stdinVars, drainVars, logVars, otherVars>>

\* main.rs 93-99: without a command, print the usage and exit(1)
CheckArgs ==
  /\ pc = "start"
  /\ IF args_len < 2
     THEN /\ emitted' = emitted \o <<Eprint("banner"), Eprint("usage"), Eprint("captures")>>
          /\ exit_status' = Some(1)
          /\ pc' = "exited"
     ELSE /\ pc' = "log_start"
          /\ UNCHANGED <<emitted, exit_status>>
  /\ UNCHANGED <<faulty, args_len, output, end_time, captured>>
  /\ UNCHANGED <<childVars, pipeVars, stdinVars, drainVars, logVars, otherVars>>

\* one call of log_telemetry_event by the main thread: any outcome
MainLog(event, outcome) ==
  /\ faulty \/ outcome = "ok"
  /\ log' = log_telemetry_event(log, 1, event, outcome)
  /\ dropped' = IF outcome = "ok" THEN dropped
                ELSE [dropped EXCEPT ![1] = @ \cup {event.event_type}]

\* main.rs 132
LogStart ==
  /\ pc = "log_start"
  /\ \E outcome \in LogOutcomes : MainLog(pre_event(1), outcome)
  /\ pc' = "announce"
  /\ UNCHANGED <<faulty, args_len, exit_status, output, end_time, emitted, captured>>
  /\ UNCHANGED <<childVars, pipeVars, stdinVars, drainVars, otherVars>>

\* main.rs 134-136
Announce ==
  /\ pc = "announce"
  /\ emitted' = Append(emitted, Eprint("executing"))
  /\ pc' = "spawn"
  /\ UNCHANGED <<faulty, args_len, exit_status, output, end_time, captured>>
  /\ UNCHANGED <<childVars, pipeVars, stdinVars, drainVars, logVars, otherVars>>

\* what the child may do next, given what it has written and read so far
NextOps(prod, cin) ==
  {[op |-> "write", s |-> s] :
     s \in {t \in Streams : /\ Len(prod[t]) < (IF faulty THEN MaxOutFaulty ELSE MaxOut)
                             /\ Len(prod["stdout"]) + Len(prod["stderr"]) < MaxTotal}}
    \cup (IF cin.eof THEN {} ELSE {[op |-> "read", s |-> "stdin"]})
    \cup {[op |-> "exit", s |-> "none"]}

\* main.rs 139-149: cmd.spawn() with the three pipes; a failure panics (expect)
\* a failed spawn that ends the process with code 0
SpawnFailureExitsZero ==
  /\ exit_status' = Some(0)
  /\ pc' = "panicked"
  /\ UNCHANGED <<childVars, pipeVars, stdinVars>>

SpawnFailure ==
  /\ exit_status' = Some(101)
  /\ pc' = "panicked"
  /\ UNCHANGED <<childVars, pipeVars, stdinVars>>

SpawnSuccess ==
  /\ childState' = "running"
  /\ childOp' \in NextOps(produced, childStdin)
  /\ readerOpen' = [s \in Streams |-> TRUE]
  /\ stdinWriteOpen' = TRUE
  /\ pc' = "spawn_stdout_thread"
  /\ UNCHANGED <<exit_status, childStatus, produced, childStdin, pipe, heldOpen,
                 stdinSupplied, stdinPipe>>

SpawnChild ==
  /\ pc = "spawn"
  /\ (SpawnSuccess \/ SpawnFailure)
  /\ UNCHANGED <<faulty, args_len, output, end_time, emitted, captured>>
  /\ UNCHANGED <<drainVars, logVars, otherVars>>

\* main.rs 156-160 and 163-167: thread::spawn of the drain of stream s
SpawnThread(s, here, next) ==
  /\ pc = here
  /\ drainPc' = [drainPc EXCEPT ![s] = "running"]
  /\ pc' = next
  /\ UNCHANGED <<faulty, args_len, exit_status, output, end_time, emitted, captured>>
  /\ UNCHANGED <<rbuf, lines, total_bytes, chan>>
  /\ UNCHANGED <<childVars, pipeVars, stdinVars, logVars, otherVars>>

\* main() going on to the wait without spawning the stderr drain
SpawnStderrThreadMissing ==
  /\ pc = "spawn_stderr_thread"
  /\ pc' = "wait"
  /\ UNCHANGED <<faulty, args_len, exit_status, output, end_time, emitted, captured>>
  /\ UNCHANGED <<childVars, pipeVars, stdinVars, drainVars, logVars, otherVars>>

SpawnStdoutThread == SpawnThread("stdout", "spawn_stdout_thread", "spawn_stderr_thread")
SpawnStderrThread == SpawnThread("stderr", "spawn_stderr_thread", "wait")

\* main.rs 170: Child::wait first closes the child's stdin handle ...
WaitCloseStdin ==
  /\ pc = "wait"
  /\ stdinWriteOpen' = FALSE
  /\ pc' = "waiting"
  /\ UNCHANGED <<faulty, args_len, exit_status, output, end_time, emitted, captured>>
  /\ UNCHANGED <<stdinSupplied, stdinPipe>>
  /\ UNCHANGED <<childVars, pipeVars, drainVars, logVars, otherVars>>

\* ... and returns once the child has terminated; main.rs 171-172 take end_time
WaitReturn ==
  /\ pc = "waiting"
  /\ childState = "terminated"
  /\ output' = Some(childStatus)
  /\ end_time' = Some(Now)
  /\ pc' = "recv_stdout"
  /\ UNCHANGED <<faulty, args_len, exit_status, emitted, captured>>
  /\ UNCHANGED <<childVars, pipeVars, stdinVars, drainVars, logVars, otherVars>>

\* a join that takes what the drain has captured so far, without blocking
RecvWithoutBlocking(s, here, next) ==
  /\ pc = here
  /\ captured' = [captured EXCEPT ![s] =
                     Some([lines |-> lines[s], bytes |-> total_bytes[s]])]
  /\ pc' = next
  /\ UNCHANGED <<faulty, args_len, exit_status, output, end_time, emitted>>
  /\ UNCHANGED <<childVars, pipeVars, stdinVars, drainVars, logVars, otherVars>>

\* main.rs 175-176: recv() blocks until the drain thread has sent its result
Recv(s, here, next) ==
  /\ pc = here
  /\ chan[s] # NoneOpt
  /\ captured' = [captured EXCEPT ![s] = chan[s]]
  /\ chan' = [chan EXCEPT ![s] = NoneOpt]
  /\ pc' = next
  /\ UNCHANGED <<faulty, args_len, exit_status, output, end_time, emitted>>
  /\ UNCHANGED <<drainPc, rbuf, lines, total_bytes>>
  /\ UNCHANGED <<childVars, pipeVars, stdinVars, logVars, otherVars>>

RecvStdout == Recv("stdout", "recv_stdout", "recv_stderr")
RecvStderr == Recv("stderr", "recv_stderr", "print_stdout")

\* main.rs 179-184: one iteration of a print loop, or its end
ReemitLoop(s, here, next) ==
  /\ pc = here
  /\ LET ls == captured[s][1].lines
         k == Reemitted(s)
     IN  IF k < Len(ls)
         THEN /\ emitted' = Append(emitted, PrintLine(s, ls[k + 1]))
              /\ pc' = here
         ELSE /\ pc' = next
              /\ UNCHANGED emitted
  /\ UNCHANGED <<faulty, args_len, exit_status, output, end_time, captured>>
  /\ UNCHANGED <<childVars, pipeVars, stdinVars, drainVars, logVars, otherVars>>

\* a first print loop that runs over the stderr lines
PrintStderrFirst == ReemitLoop("stderr", "print_stdout", "print_stderr")

PrintStdout == ReemitLoop("stdout", "print_stdout", "print_stderr")
PrintStderr == ReemitLoop("stderr", "print_stderr", "log_end")

\* the values main() holds after the joins
Cap == [s \in Streams |-> captured[s][1]]
Stats == process_stats(output[1], end_time[1], [s \in Streams |->
           [lines |-> Cap[s].lines, bytes |-> Cap[s].bytes]])

\* main.rs 199-219
LogEnd ==
  /\ pc = "log_end"
  /\ \E outcome \in LogOutcomes : MainLog(post_event(1, Stats, Cap), outcome)
  /\ pc' = "log_stats"
  /\ UNCHANGED <<faulty, args_len, exit_status, output, end_time, emitted, captured>>
  /\ UNCHANGED <<childVars, pipeVars, stdinVars, drainVars, otherVars>>

\* main.rs 222-247
LogStats ==
  /\ pc = "log_stats"
  /\ \E outcome \in LogOutcomes : MainLog(stats_event(1, Stats, Cap), outcome)
  /\ pc' = "summary"
  /\ UNCHANGED <<faulty, args_len, exit_status, output, end_time, emitted, captured>>
  /\ UNCHANGED <<childVars, pipeVars, stdinVars, drainVars, otherVars>>

\* main.rs 249-257
Summary ==
  /\ pc = "summary"
  /\ emitted' = emitted \o <<Eprint("completed"), Eprint("telemetry_path")>>
  /\ pc' = "exit"
  /\ UNCHANGED <<faulty, args_len, exit_status, output, end_time, captured>>
  /\ UNCHANGED <<childVars, pipeVars, stdinVars, drainVars, logVars, otherVars>>

\* an exit that reports success whatever the child's code
ExitSuccess(st) == 0

\* main.rs 259: std::process::exit(process_stats.exit_code)
ExitCodeOf(st) == st.exit_code

Exit ==
  /\ pc = "exit"
  /\ exit_status' = Some(ExitCodeOf(Stats))
  /\ pc' = "exited"
  /\ UNCHANGED <<faulty, args_len, output, end_time, emitted, captured>>
  /\ UNCHANGED <<childVars, pipeVars, stdinVars, drainVars, logVars, otherVars>>


(***************************************************************************)
(* The child process and a descendant it may leave behind.  The child is   *)
(* any program: it writes bytes to its stdout and stderr, may read its     *)
(* stdin to the end, and terminates with an exit code or by a signal.      *)
(***************************************************************************)
Terminate(status) ==
  /\ childState' = "terminated"
  /\ childStatus' = status
  /\ childOp' = [op |-> "none", s |-> "none"]

\* write(2) of one byte to a pipe whose read end is open: blocks while full
ChildWrite(s) ==
  /\ childState = "running"
  /\ childOp = [op |-> "write", s |-> s]
  /\ readerOpen[s]
  /\ Len(pipe[s]) < PipeCap
  /\ \E b \in ChildBytes :
       /\ pipe' = [pipe EXCEPT ![s] = Append(@, b)]
       /\ produced' = [produced EXCEPT ![s] = Append(@, b)]
  /\ childOp' \in NextOps(produced', childStdin)
  /\ UNCHANGED <<childState, childStatus, childStdin, readerOpen, heldOpen>>
  /\ UNCHANGED <<mainVars, stdinVars, drainVars, logVars, otherVars>>

\* write(2) to a pipe whose read end is closed: SIGPIPE ends the child, or,
\* the signal being ignored, the write fails with EPIPE and the child goes on
\* (giving up writing to closed pipes)
ChildWriteBroken(s) ==
  /\ childState = "running"
  /\ childOp = [op |-> "write", s |-> s]
  /\ ~readerOpen[s]
  /\ \/ /\ Terminate(NoneOpt)
        /\ heldOpen' \in BOOLEAN
     \/ /\ childOp' \in {o \in NextOps(produced, childStdin) :
                            o.op = "write" => readerOpen[o.s]}
        /\ UNCHANGED <<childState, childStatus, heldOpen>>
  /\ UNCHANGED <<produced, childStdin, pipe, readerOpen>>
  /\ UNCHANGED <<mainVars, stdinVars, drainVars, logVars, otherVars>>

\* read(2) of the child's stdin to the end: the bytes in the pipe, and EOF
\* once the pipe is empty and its write end is closed
ChildReadStdin ==
  /\ childState = "running"
  /\ childOp = [op |-> "read", s |-> "stdin"]
  /\ IF stdinPipe # <<>>
     THEN /\ childStdin' = [childStdin EXCEPT !.got = @ \o stdinPipe]
          /\ stdinPipe' = <<>>
          /\ UNCHANGED childOp
     ELSE /\ ~stdinWriteOpen
          /\ childStdin' = [childStdin EXCEPT !.eof = TRUE]
          /\ childOp' \in NextOps(produced, childStdin')
          /\ UNCHANGED stdinPipe
  /\ UNCHANGED <<childState, childStatus, produced, stdinSupplied, stdinWriteOpen>>
  /\ UNCHANGED <<mainVars, pipeVars, drainVars, logVars, otherVars>>

\* the child terminates, with an exit code or by a signal; a descendant it
\* started may live on, holding the write ends of the two pipes
ChildExit ==
  /\ childState = "running"
  /\ childOp = [op |-> "exit", s |-> "none"]
  /\ \E status \in ChildStatuses : Terminate(status)
  /\ heldOpen' \in BOOLEAN
  /\ UNCHANGED <<produced, childStdin, pipe, readerOpen>>
  /\ UNCHANGED <<mainVars, stdinVars, drainVars, logVars, otherVars>>

\* the descendant ends, or closes its copies of the write ends
DescendantClose ==
  /\ heldOpen
  /\ heldOpen' = FALSE
  /\ UNCHANGED <<pipe, readerOpen>>
  /\ UNCHANGED <<mainVars, childVars, stdinVars, drainVars, logVars, otherVars>>

(***************************************************************************)
(* The drain threads, main.rs 156-167: capture_stream_lines on a BufReader *)
(* of the pipe, then send.                                                 *)
(***************************************************************************)
\* a drain that is scheduled only once the stdout drain has finished
DrainReadySequential(s) ==
  /\ drainPc[s] = "running"
  /\ s = "stderr" => drainPc["stdout"] = "sent"

\* the drain thread of s runs on its own, from thread::spawn to its send
DrainReady(s) == drainPc[s] = "running"

\* an end of stream signalled as soon as the child has terminated
WritersClosedAtChildExit == childState = "terminated"

\* every write end of the pipe is closed
WritersClosed == childState = "terminated" /\ ~heldOpen

\* the thread after the reader supplied `buf` (with or without end of stream)
DrainStep(s, buf, eof) ==
  LET r == CaptureLoop(lines[s], total_bytes[s], buf, eof)
  IN  /\ lines' = [lines EXCEPT ![s] = r.lines]
      /\ total_bytes' = [total_bytes EXCEPT ![s] = r.total_bytes]
      /\ pipe' = [pipe EXCEPT ![s] = <<>>]
      /\ IF r.done
         THEN \* capture_stream_lines returns: the reader is dropped, which
              \* closes the read end, and the result is sent
              /\ rbuf' = [rbuf EXCEPT ![s] = <<>>]
              /\ readerOpen' = [readerOpen EXCEPT ![s] = FALSE]
              /\ chan' = [chan EXCEPT ![s] =
                            Some([lines |-> r.lines, bytes |-> r.total_bytes])]
              /\ drainPc' = [drainPc EXCEPT ![s] = "sent"]
         ELSE /\ rbuf' = [rbuf EXCEPT ![s] = r.rest]
              /\ UNCHANGED <<readerOpen, chan, drainPc>>

\* the BufReader reads what the pipe holds; the loop runs on it
DrainRead(s) ==
  /\ DrainReady(s)
  /\ pipe[s] # <<>>
  /\ DrainStep(s, rbuf[s] \o pipe[s], FALSE)
  /\ UNCHANGED heldOpen
  /\ UNCHANGED <<mainVars, childVars, stdinVars, logVars, otherVars>>

\* the pipe is empty and no write end is left: read returns 0, end of stream
DrainEof(s) ==
  /\ DrainReady(s)
  /\ pipe[s] = <<>>
  /\ WritersClosed
  /\ DrainStep(s, rbuf[s], TRUE)
  /\ UNCHANGED heldOpen
  /\ UNCHANGED <<mainVars, childVars, stdinVars, logVars, otherVars>>

MainThread ==
  \/ CheckArgs \/ LogStart \/ Announce \/ SpawnChild
  \/ SpawnStdoutThread \/ SpawnStderrThread
  \/ WaitCloseStdin \/ WaitReturn \/ RecvStdout \/ RecvStderr
  \/ PrintStdout \/ PrintStderr \/ LogEnd \/ LogStats \/ Summary \/ Exit

Child == ChildReadStdin \/ ChildExit \/ \E s \in Streams : ChildWrite(s) \/ ChildWriteBroken(s)

Drain(s) == DrainRead(s) \/ DrainEof(s)

Next ==
  \/ CheckArgs \/ LogStart \/ Announce \/ SpawnChild
  \/ SpawnStdoutThread \/ SpawnStderrThread
  \/ WaitCloseStdin \/ WaitReturn \/ RecvStdout \/ RecvStderr
  \/ PrintStdout \/ PrintStderr \/ LogEnd \/ LogStats \/ Summary \/ Exit
  \/ ChildReadStdin \/ ChildExit
  \/ \E s \in Streams : ChildWrite(s)
  \/ \E s \in Streams : ChildWriteBroken(s)
  \/ DescendantClose
  \/ \E s \in Streams : DrainRead(s)
  \/ \E s \in Streams : DrainEof(s)

Spec == Init /\ [][Next]_vars


(***************************************************************************)
(* Fair scheduling: a work-conserving scheduler.  While the main thread, a *)
(* drain thread or the child can take a step, one of them eventually does. *)
(* Nothing is assumed of a descendant holding the pipes open.              *)
(***************************************************************************)
Fairness == WF_vars(MainThread \/ Child \/ Drain("stdout") \/ Drain("stderr"))

\* the runs whose telemetry writes succeed, fairly scheduled
InitFair == Init /\ ~faulty
FairSpec == InitFair /\ [][Next]_vars /\ Fairness

(***************************************************************************)
(* SpecCapture: capture_stream_lines as a function of the bytes of its     *)
(* reader, on every input of at most MaxLen bytes.                         *)
(***************************************************************************)
Idle ==
  /\ MainInit
  /\ faulty = FALSE
  /\ args_len = 1
  /\ stdinSupplied = <<>>

InitCapture ==
  /\ Idle
  /\ emitter = [i \in Invocations |-> "idle"]
  /\ cap_in \in SeqUpTo(Byte, MaxLen)
  /\ cap_out = NoneOpt

Capture ==
  /\ cap_out = NoneOpt
  /\ cap_out' = Some(capture_stream_lines(cap_in))
  /\ UNCHANGED <<cap_in, emitter>>
  /\ UNCHANGED <<mainVars, childVars, pipeVars, stdinVars, drainVars, logVars>>

SpecCapture == InitCapture /\ [][Capture]_vars

(***************************************************************************)
(* SpecLog: two invocations of the driver appending their three events to  *)
(* the same telemetry log, each call of log_telemetry_event step by step:  *)
(* open the file and serialize the event, write the JSON text, write the   *)
(* newline.  The file is opened with O_APPEND: each write lands whole at   *)
(* the end of the file.                                                    *)
(***************************************************************************)
\* a finished run's values, for the events of SpecLog
SampleCap == [s \in Streams |-> [lines |-> <<>>, bytes |-> 0]]
SampleStats == process_stats(Some(0), Now, SampleCap)
Events(inv) ==
  <<pre_event(inv), post_event(inv, SampleStats, SampleCap),
    stats_event(inv, SampleStats, SampleCap)>>

InitLog ==
  /\ Idle
  /\ emitter = [i \in Invocations |-> [n |-> 1, step |-> "open"]]
  /\ cap_in = <<>>
  /\ cap_out = NoneOpt

\* the call for event n of invocation inv ends: it succeeded or it is dropped
EndCall(inv, ok) ==
  /\ emitter' = [emitter EXCEPT ![inv] = [n |-> @.n + 1, step |-> "open"]]
  /\ dropped' = IF ok THEN dropped
                ELSE [dropped EXCEPT ![inv] = @ \cup {Events(inv)[emitter[inv].n].event_type}]

\* main.rs 80-81: OpenOptions::open and serde_json::to_string
EmitOpen(inv) ==
  /\ emitter[inv].n <= Len(Events(inv))
  /\ emitter[inv].step = "open"
  /\ \/ /\ emitter' = [emitter EXCEPT ![inv].step = "json"]
        /\ UNCHANGED dropped
     \/ EndCall(inv, FALSE)
  /\ UNCHANGED <<log, cap_in, cap_out>>
  /\ UNCHANGED <<mainVars, childVars, pipeVars, stdinVars, drainVars>>

\* main.rs 82: the first write of writeln!, the JSON text
EmitJson(inv) ==
  /\ emitter[inv].n <= Len(Events(inv))
  /\ emitter[inv].step = "json"
  /\ \/ /\ log' = WriteJson(log, inv, Events(inv)[emitter[inv].n])
        /\ emitter' = [emitter EXCEPT ![inv].step = "newline"]
        /\ UNCHANGED dropped
     \/ /\ EndCall(inv, FALSE)
        /\ UNCHANGED log
  /\ UNCHANGED <<cap_in, cap_out>>
  /\ UNCHANGED <<mainVars, childVars, pipeVars, stdinVars, drainVars>>

\* main.rs 82: the second write of writeln!, the newline
EmitNewline(inv) ==
  /\ emitter[inv].n <= Len(Events(inv))
  /\ emitter[inv].step = "newline"
  /\ \/ /\ log' = WriteNewline(log, inv)
        /\ EndCall(inv, TRUE)
     \/ /\ EndCall(inv, FALSE)
        /\ UNCHANGED log
  /\ UNCHANGED <<cap_in, cap_out>>
  /\ UNCHANGED <<mainVars, childVars, pipeVars, stdinVars, drainVars>>

NextLog ==
  \/ \E inv \in Invocations : EmitOpen(inv)
  \/ \E inv \in Invocations : EmitJson(inv)
  \/ \E inv \in Invocations : EmitNewline(inv)

SpecLog == InitLog /\ [][NextLog]_vars


(***************************************************************************)
(* Properties.                                                             *)
(***************************************************************************)
\* the wrapper ran to its std::process::exit after a child was spawned
Completed == pc = "exited" /\ childState = "terminated"
Done == pc \in {"exited", "panicked"}

\* the events whose JSON text is in the log, in order
JsonAt(l) == {i \in 1..Len(l) : l[i].kind = "json"}
EventAt(l, i) == l[i].event[1]

\* the number of lines in the bytes a child wrote: one per LF, and one more
\* for bytes after the last LF
LinesWritten(bytes) ==
  Cardinality({i \in 1..Len(bytes) : bytes[i] = LF})
    + (IF Len(bytes) > 0 /\ Last(bytes) # LF THEN 1 ELSE 0)

\* C1: whenever the wrapper has exited after a child was spawned and has
\* terminated, the wrapper's exit code is the child's exit code, and -1 when
\* the child has none; whatever the child wrote and whatever the telemetry
\* writes did.
C1_ExitCodeIsChildCode ==
  Completed =>
    exit_status = Some(IF childStatus = NoneOpt THEN -1 ELSE childStatus[1])

C1_Witness ==
  /\ Completed
  /\ childStatus = Some(3)
  /\ exit_status = Some(3)
  /\ dropped[1] # {}
  /\ produced["stdout"] # <<>>

\* C2: under fair scheduling of the main thread, the drain threads and the
\* child, every run ends for good in the wrapper's exit, unless a descendant
\* of the child keeps holding the pipes open: no run stays stuck with the
\* child blocked on a full pipe or a drain that is never served, however much
\* the child writes to the two bounded pipes.
C2_NoDeadlock == <>[](Done \/ heldOpen)

C2_Witness ==
  /\ Completed
  /\ \A s \in Streams : Len(produced[s]) > PipeCap

\* C3: once the wrapper has exited after a run whose child was spawned and
\* terminated and whose three log writes succeeded, the log is exactly three
\* lines, process_start, process_end, process_stats in this order, each line
\* one record, all three with the same session identifier and command.
C3_StartEndStatsInOrder ==
  (Completed /\ dropped[1] = {}) =>
    /\ Len(log) = 6
    /\ \A k \in 1..3 : log[2 * k - 1].kind = "json" /\ log[2 * k].kind = "newline"
    /\ <<EventAt(log, 1).event_type, EventAt(log, 3).event_type,
         EventAt(log, 5).event_type>>
         = <<"process_start", "process_end", "process_stats">>
    /\ \A k \in {3, 5} :
         /\ EventAt(log, k).session_id = EventAt(log, 1).session_id
         /\ EventAt(log, k).command = EventAt(log, 1).command

C3_Witness ==
  /\ Completed
  /\ dropped[1] = {}
  /\ faulty
  /\ Len(log) = 6

\* C4 (as amended): for every stream of which no read failed, that is whose
\* bytes are valid UTF-8, the size reported in process_end and process_stats
\* is the number of bytes the child wrote to the stream, and when this holds
\* of both streams total_bytes is their sum.
SizesAreBytesWritten(ok) ==
  \A i \in JsonAt(log) :
    LET e == EventAt(log, i)
    IN  e.event_type \in {"process_end", "process_stats"} =>
          /\ ok["stdout"] => e.stdout_size_bytes = Some(Len(produced["stdout"]))
          /\ ok["stderr"] => e.stderr_size_bytes = Some(Len(produced["stderr"]))
          /\ (e.event_type = "process_stats" /\ ok["stdout"] /\ ok["stderr"]) =>
               <<"total_bytes",
                 to_string(Len(produced["stdout"]) + Len(produced["stderr"]))>> \in e.env

C4_SizesOfValidOutput == SizesAreBytesWritten([s \in Streams |-> ValidUtf8(produced[s])])

\* C4 as stated: the reported sizes are the bytes written, for every output
C4_SizesOfEveryOutput == SizesAreBytesWritten([s \in Streams |-> TRUE])

C4_Witness ==
  /\ Completed
  /\ \E i \in JsonAt(log) : EventAt(log, i).event_type = "process_stats"
  /\ \A s \in Streams : Len(produced[s]) > PipeCap /\ ValidUtf8(produced[s])

\* C5 (as amended): for every stream of which no read failed, that is whose
\* bytes are valid UTF-8, the line count reported for the stream (the length
\* of the line sequence in process_end, the count in the summary of
\* process_stats) is the number of lines the child wrote to it; a stream the
\* child wrote nothing to counts 0 lines.
CountsAreLinesWritten(ok) ==
  \A i \in JsonAt(log) :
    LET e == EventAt(log, i)
    IN  /\ e.event_type = "process_end" =>
             \A s \in Streams : ok[s] =>
               Len((IF s = "stdout" THEN e.stdout_lines ELSE e.stderr_lines)[1])
                 = LinesWritten(produced[s])
        /\ e.event_type = "process_stats" =>
             \A s \in Streams : ok[s] =>
               <<(IF s = "stdout" THEN "stdout_lines" ELSE "stderr_lines"),
                 to_string(LinesWritten(produced[s]))>> \in e.env

C5_CountsOfValidOutput == CountsAreLinesWritten([s \in Streams |-> ValidUtf8(produced[s])])

\* C5 as stated: the reported counts are the lines written, for every output
C5_CountsOfEveryOutput == CountsAreLinesWritten([s \in Streams |-> TRUE])

C5_Witness ==
  /\ Completed
  /\ \E i \in JsonAt(log) : EventAt(log, i).event_type = "process_stats"
  /\ produced["stdout"] = <<>>
  /\ ValidUtf8(produced["stderr"])
  /\ LinesWritten(produced["stderr"]) >= 2


\* the bytes of `ls`, each line followed by its terminator
RECURSIVE Joined(_, _)
Joined(ls, terms) ==
  IF ls = <<>> THEN <<>>
  ELSE ls[1] \o terms[1] \o Joined(Tail(ls), Tail(terms))

\* `ls` are the lines of `input`, a stream of lines each ended by LF or CR LF,
\* without their terminators: no line holds an LF, the lines followed by
\* their terminators are the input, and a line ended by a bare LF does not
\* end with CR
IsLineSplit(input, ls) ==
  /\ \A i \in 1..Len(ls) : \A k \in 1..Len(ls[i]) : ls[i][k] # LF
  /\ \E terms \in [1..Len(ls) -> {<<LF>>, <<CR, LF>>}] :
       /\ Joined(ls, terms) = input
       /\ \A i \in 1..Len(ls) :
            terms[i] = <<LF>> => (ls[i] = <<>> \/ Last(ls[i]) # CR)

\* every line of the input is terminated
Terminated(input) == input = <<>> \/ Last(input) = LF

LinesAndTotal(ok) ==
  (cap_out # NoneOpt /\ Terminated(cap_in) /\ ok) =>
    /\ IsLineSplit(cap_in, cap_out[1].lines)
    /\ cap_out[1].total_bytes = Len(cap_in)

\* C6 (as amended): for every input stream of valid UTF-8 made of lines
\* terminated by LF or CR LF, capture_stream_lines returns the lines in
\* order with the terminator stripped, and the number of bytes of the input.
C6_LinesOfValidInput == LinesAndTotal(ValidUtf8(cap_in))

\* C6 as stated: the same of every input byte stream
C6_LinesOfEveryInput == LinesAndTotal(TRUE)

C6_Witness ==
  /\ cap_in = <<"a", CR, LF, LF>>
  /\ cap_out = Some([lines |-> << <<"a">>, <<>> >>, total_bytes |-> 4])

\* index of the last LF of buf, 0 when there is none
LastLF(buf) ==
  IF \E i \in 1..Len(buf) : buf[i] = LF
  THEN CHOOSE i \in 1..Len(buf) : buf[i] = LF /\ \A j \in (i + 1)..Len(buf) : buf[j] # LF
  ELSE 0

FinalLineKept(ok) ==
  (cap_out # NoneOpt /\ ~Terminated(cap_in) /\ ok) =>
    /\ cap_out[1].lines # <<>>
    /\ Last(cap_out[1].lines) = SubSeq(cap_in, LastLF(cap_in) + 1, Len(cap_in))
    /\ cap_out[1].total_bytes = Len(cap_in)

\* C7 (as amended): for every input stream of valid UTF-8 whose final line
\* has no terminator, the last captured line is that final line, unmodified,
\* and the byte total counts its bytes.
C7_FinalLineOfValidInput == FinalLineKept(ValidUtf8(cap_in))

\* C7 as stated: the same of every stream
C7_FinalLineOfEveryInput == FinalLineKept(TRUE)

C7_Witness ==
  /\ cap_in = <<"a", LF, "a", CR>>
  /\ cap_out = Some([lines |-> << <<"a">>, <<"a", CR>> >>, total_bytes |-> 4])

\* what the wrapper writes for the captured lines `ls` of stream fd
ReemittedLines(fd) ==
  LET idx == {i \in 1..Len(emitted) : emitted[i].fd = fd /\ emitted[i].kind = "captured"}
      F[n \in 0..Len(emitted)] ==
        IF n = 0 THEN <<>>
        ELSE IF n \in idx THEN Append(F[n - 1], emitted[n].text) ELSE F[n - 1]
  IN  F[Len(emitted)]

\* C8: a failing telemetry write is invisible: the failing event leaves
\* nothing in the log, no failure ends the run (only a failed spawn panics),
\* and a completed run has re-emitted the captured lines of both streams and
\* exited with the child's code exactly as when every write succeeds.
C8_FailuresDropTheEvent ==
  /\ \A i \in JsonAt(log) : EventAt(log, i).event_type \notin dropped[1]
  /\ pc = "panicked" => childState = "none"
  /\ Completed =>
       /\ exit_status = Some(unwrap_or(childStatus, -1))
       /\ \A s \in Streams :
            ReemittedLines(s) = [k \in 1..Len(captured[s][1].lines) |->
                                   Append(captured[s][1].lines[k], LF)]

\* C9: when the appends of the two invocations all succeed, every line of
\* the shared log is one record of one invocation: each newline directly
\* follows a JSON text written by the same invocation, which itself starts
\* the file or follows a newline.
C9_LinesAreSingleRecords ==
  (\A inv \in Invocations : dropped[inv] = {}) =>
    \A k \in 1..Len(log) :
      log[k].kind = "newline" =>
        /\ k > 1
        /\ log[k - 1].kind = "json"
        /\ log[k - 1].by = log[k].by
        /\ k > 2 => log[k - 2].kind = "newline"

\* C10: a child that has read its standard input to the end has received
\* the bytes the caller supplied on the wrapper's standard input.
C10_StdinReachesChild == childStdin.eof => childStdin.got = stdinSupplied


\* what the wrapper wrote to its descriptor fd, in order
OnFd(fd) == SelectSeq(emitted, LAMBDA e : e.fd = fd)

\* the captured lines of stream s as println!/eprintln! write them
CapturedOn(s) ==
  [k \in 1..Len(captured[s][1].lines) |->
     [fd |-> s, kind |-> "captured", text |-> Append(captured[s][1].lines[k], LF)]]

\* the wrapper's own line of the given kind, on the error stream
OwnLine(kind) == [fd |-> "stderr", kind |-> kind, text |-> <<>>]

OutputIs(on_completion) ==
  /\ \A i \in 1..Len(emitted) : emitted[i].fd = "stdout" => emitted[i].kind = "captured"
  /\ Completed =>
       /\ OnFd("stdout") = CapturedOn("stdout")
       /\ OnFd("stderr") = <<OwnLine("executing")>> \o CapturedOn("stderr") \o on_completion

\* C11 (as amended): nothing but captured stdout lines is ever written to
\* the wrapper's stdout; after a completed run stdout is exactly the captured
\* stdout lines in captured order, each followed by a line feed, and stderr
\* is the "Executing" line, the captured stderr lines in captured order, and
\* two lines on completion: the summary and the telemetry file's path.
C11_OutputWithTwoClosingLines ==
  OutputIs(<<OwnLine("completed"), OwnLine("telemetry_path")>>)

\* C11 as stated: one summary line on completion
C11_OutputWithOneSummaryLine == OutputIs(<<OwnLine("completed")>>)

C11_Witness ==
  /\ Completed
  /\ \A s \in Streams : captured[s][1].lines # <<>>
  /\ Len(captured["stdout"][1].lines) >= 2


\* C12: a drain that gave up on its stream at a failed read leaves the child
\* undisturbed: a running child that goes on to write to the stream finds
\* the pipe's read end open, so that its write neither fails nor ends it;
\* and the completed run reports the child's exit code.
C12_ReadFailureLeavesChildAlone ==
  /\ (childState = "running" /\ childOp.op = "write") => readerOpen[childOp.s]
  /\ Completed => exit_status = Some(unwrap_or(childStatus, -1))


\* C13: invoked without a command (args.len() < 2), the wrapper spawns no
\* child, starts no drain and writes nothing to the telemetry log, and its
\* first step leaves it exited with code 1 after printing the usage, on the
\* error stream only.
C13_UsageExit ==
  args_len < 2 =>
    /\ childState = "none"
    /\ \A s \in Streams : drainPc[s] = "unstarted"
    /\ log = <<>>
    /\ pc # "start" =>
         /\ pc = "exited"
         /\ exit_status = Some(1)
         /\ \E i \in 1..Len(emitted) : emitted[i].kind = "usage"
         /\ \A i \in 1..Len(emitted) : emitted[i].fd = "stderr"

C13_Witness ==
  /\ args_len = 1
  /\ pc = "exited"
  /\ exit_status = Some(1)


\* C14: after a failed spawn the process has ended with a code other than
\* 0, no child exists, no drain was started, no wait returned, and the log
\* holds no event but the one process_start written before the attempt.
C14_SpawnFailureAborts ==
  pc = "panicked" =>
    /\ exit_status # NoneOpt
    /\ exit_status[1] # 0
    /\ childState = "none"
    /\ \A s \in Streams : drainPc[s] = "unstarted"
    /\ output = NoneOpt
    /\ \A i \in JsonAt(log) : EventAt(log, i).event_type = "process_start"
    /\ Cardinality(JsonAt(log)) <= 1

C14_Witness ==
  /\ pc = "panicked"
  /\ Len(log) = 2
  /\ EventAt(log, 1).event_type = "process_start"


\* the wrapper has reported on the run: it has re-emitted a captured line,
\* written a process_end or process_stats event, or exited at the end of main
Reported ==
  \/ \E i \in 1..Len(emitted) : emitted[i].kind = "captured"
  \/ \E i \in JsonAt(log) : EventAt(log, i).event_type \in {"process_end", "process_stats"}
  \/ (pc = "exited" /\ args_len >= 2)

\* the drain of s has returned and the main thread has received its result
Delivered(s) == drainPc[s] = "sent" /\ chan[s] = NoneOpt /\ captured[s] # NoneOpt

\* the stream s has ended and its drain has returned: no write end of the
\* pipe is left open, so that nothing more can be written to it
EndedAtEof(s) == drainPc[s] = "sent" /\ WritersClosed

\* C15 (as amended): in every state in which the wrapper has reported on
\* the run, the child has terminated and both drains have returned, at the
\* end of the stream or at a failed read, and delivered their results.
C15_NoReportWhileDrainInFlight ==
  Reported => (childState = "terminated" /\ \A s \in Streams : Delivered(s))

\* C15 as stated: both drains have reached the end of their stream
C15_NoReportBeforeEndOfStream ==
  Reported =>
    (childState = "terminated" /\ \A s \in Streams : Delivered(s) /\ EndedAtEof(s))

C15_Witness ==
  /\ pc = "log_stats"
  /\ \E i \in JsonAt(log) : EventAt(log, i).event_type = "process_end"
  /\ \A s \in Streams : Len(produced[s]) > PipeCap /\ captured[s][1].lines # <<>>


\* C16: there are two drains, one per output stream; both have been started
\* when the main thread calls child.wait() and ever after; and the main
\* thread is at a join, or holds a drain's result, only once the wait has
\* returned the terminated child's status.
C16_DrainsStartedBeforeWaitJoinedAfter ==
  /\ DOMAIN drainPc = Streams
  /\ Cardinality(Streams) = 2
  /\ (pc \in {"wait", "waiting"} \/ output # NoneOpt) =>
       \A s \in Streams : drainPc[s] # "unstarted"
  /\ (pc \in {"recv_stdout", "recv_stderr"} \/ \E s \in Streams : captured[s] # NoneOpt) =>
       (output # NoneOpt /\ childState = "terminated")

C16_Witness ==
  /\ pc = "recv_stderr"
  /\ captured["stdout"] # NoneOpt
  /\ drainPc["stderr"] = "running"
  /\ output = Some(Some(3))


\* C17: whenever the end timestamp has been taken, the child has
\* terminated, both drains have been joined and the captured output has been
\* re-emitted.
C17_EndTimeTakenAfterJoins ==
  end_time # NoneOpt =>
    /\ childState = "terminated"
    /\ \A s \in Streams : captured[s] # NoneOpt
    /\ pc \notin {"recv_stdout", "recv_stderr", "print_stdout", "print_stderr"}


\* the keys of a mapping held as a set of <<key, value>> pairs
Keys(m) == {kv[1] : kv \in m}

\* C18: of the events in the log, process_start carries the environment
\* snapshot and no duration, exit code, captured lines or sizes; process_end
\* carries the captured line sequences of both streams, both byte sizes, the
\* duration and the exit code, and an empty environment; process_stats
\* carries the duration, the exit code, both byte sizes and, in place of the
\* environment, the summary of duration, line counts and total bytes, and no
\* lines; process_end and process_stats agree on duration, exit code, sizes.
C18_EventContents ==
  /\ \A i \in JsonAt(log) :
       LET e == EventAt(log, i)
       IN  /\ e.event_type = "process_start" =>
                /\ e.env = environment
                /\ e.duration_ms = NoneOpt /\ e.exit_code = NoneOpt
                /\ e.stdout_lines = NoneOpt /\ e.stderr_lines = NoneOpt
                /\ e.stdout_size_bytes = NoneOpt /\ e.stderr_size_bytes = NoneOpt
           /\ e.event_type = "process_end" =>
                /\ e.env = {}
                /\ e.duration_ms = Some(end_time[1] - start_time)
                /\ e.exit_code = Some(unwrap_or(childStatus, -1))
                /\ e.stdout_lines = Some(captured["stdout"][1].lines)
                /\ e.stderr_lines = Some(captured["stderr"][1].lines)
                /\ e.stdout_size_bytes = Some(captured["stdout"][1].bytes)
                /\ e.stderr_size_bytes = Some(captured["stderr"][1].bytes)
           /\ e.event_type = "process_stats" =>
                /\ Keys(e.env) = {"duration_ms", "stdout_lines", "stderr_lines", "total_bytes"}
                /\ e.env = {<<"duration_ms", to_string(end_time[1] - start_time)>>,
                            <<"stdout_lines", to_string(Len(captured["stdout"][1].lines))>>,
                            <<"stderr_lines", to_string(Len(captured["stderr"][1].lines))>>,
                            <<"total_bytes", to_string(captured["stdout"][1].bytes
                                                         + captured["stderr"][1].bytes)>>}
                /\ e.duration_ms # NoneOpt /\ e.exit_code # NoneOpt
                /\ e.stdout_size_bytes # NoneOpt /\ e.stderr_size_bytes # NoneOpt
                /\ e.stdout_lines = NoneOpt /\ e.stderr_lines = NoneOpt
  /\ \A i, j \in JsonAt(log) :
       LET e == EventAt(log, i)
           f == EventAt(log, j)
       IN  (e.event_type = "process_end" /\ f.event_type = "process_stats") =>
             /\ e.duration_ms = f.duration_ms
             /\ e.exit_code = f.exit_code
             /\ e.stdout_size_bytes = f.stdout_size_bytes
             /\ e.stderr_size_bytes = f.stderr_size_bytes

C18_Witness ==
  /\ Completed
  /\ Cardinality(JsonAt(log)) = 3
  /\ \A s \in Streams : captured[s][1].lines # <<>>
  /\ childStatus = NoneOpt


\* emitted[i] is a captured line re-emitted on fd
IsCaptured(i, fd) == emitted[i].kind = "captured" /\ emitted[i].fd = fd

\* C19: a captured line is written to the wrapper's stdout or stderr only
\* once the child has terminated and both drains have returned and been
\* joined; and when a captured stderr line is written every captured stdout
\* line has been written, so that no stdout line follows a stderr line.
C19_OutputBufferedStdoutFirst ==
  /\ (\E i \in 1..Len(emitted) : emitted[i].kind = "captured") =>
       /\ childState = "terminated"
       /\ \A s \in Streams : drainPc[s] = "sent" /\ captured[s] # NoneOpt
  /\ (\E i \in 1..Len(emitted) : IsCaptured(i, "stderr")) =>
       Reemitted("stdout") = Len(captured["stdout"][1].lines)
  /\ \A i, j \in 1..Len(emitted) :
       (IsCaptured(i, "stderr") /\ IsCaptured(j, "stdout")) => j < i

C19_Witness ==
  /\ pc = "print_stderr"
  /\ Reemitted("stderr") = 1
  /\ Len(captured["stderr"][1].lines) = 2
  /\ Reemitted("stdout") >= 1


\* the wrapper has written process_end or process_stats, or has exited at
\* the end of main
EndLoggedOrExited ==
  \/ \E i \in JsonAt(log) : EventAt(log, i).event_type \in {"process_end", "process_stats"}
  \/ Completed

\* no write end of the two pipes is open: the child has terminated and no
\* descendant holds a copy
NoWriterLeft == childState = "terminated" /\ ~heldOpen

====
